---- MODULE Spec2Model ----
(***************************************************************************)
(* Model of the TruthSocial polling service (src/index.js, lines 1-295)    *)
(* and of the CSV export tool's page loop (src/index.js, lines 405-588).   *)
(*                                                                         *)
(* Strings that the code inspects character by character (id, url, uri)    *)
(* are sequences of one-character strings.  A timestamp string is a record *)
(* [t, fmt]: t is the instant it denotes, fmt the way it is written        *)
(* ("iso" is Date.prototype.toISOString's output, "alt" any other          *)
(* spelling of the same instant, "bad" a string Date cannot parse,         *)
(* "none" a missing value).                                                *)
(***************************************************************************)
EXTENDS Integers, Sequences, FiniteSets, TLC

VARIABLES
    store,            \* data/posts.json: the persisted posts array
    pc,               \* per pollFeed invocation: where it is suspended
    page,             \* fetchStatusPages: loop counter `page`
    pageUrl,          \* fetchStatusPages: TRUE while `pageUrl` is truthy
    collected,        \* fetchStatusPages: `collected`, then pollFeed's `incoming`
    data,             \* pollFeed: `data.posts` as read by loadData
    origin,           \* who called pollFeed: "timer" or the waiting request
    lastResp,         \* fetchStatusPages: what the last `response` was like
    now,              \* Date.now()
    lastSeedAttempt,  \* module variable lastSeedAttempt
    lastPollAt,       \* module variable lastPollAt: NoPoll for null, else <<instant>>
    rpc,              \* per read request: where ensureSeeded is suspended
    rdata,            \* ensureSeeded: `data.posts`
    lastAttempt,      \* the instant of the latest call of pollFeed (the code keeps no such record)
    answer,           \* per read request: what the route has answered
    xpc,              \* export tool: position in the page loop
    xpage,            \* export tool: `page`
    xpageUrl,         \* export tool: TRUE while `pageUrl` is truthy
    currentDelay,     \* export tool: `currentDelay`
    waitMs,           \* export tool: `waitMs` of the last 429
    xresp,            \* export tool: what the last `response` was like
    seenIds,          \* export tool: `seenIds`
    rows,             \* export tool: the ids of `rows`, without the header row
    delayMs,          \* export tool: --delay-ms
    backoffFactor,    \* export tool: --backoff-factor, as <<numerator, denominator>>
    maxDelayMs,       \* export tool: --max-delay-ms
    maxPages,         \* export tool: --max-pages
    mIn,              \* normalizePosts on its own: the records A, B, C
    mOut,             \* normalizePosts on its own: the results of merging them
    waits,            \* export tool: the sleeps of the run of 429 responses up to the last response
    fIn,              \* a decoder, canonicalId or computeHourly on its own: the input
    fOut              \* a decoder, canonicalId or computeHourly on its own: the result

vars == <<store, pc, page, pageUrl, collected, data, origin, lastResp, now, lastSeedAttempt,
          lastPollAt, rpc, rdata, lastAttempt, answer, xpc, xpage, xpageUrl, currentDelay,
          waitMs, xresp, seenIds, rows, delayMs, backoffFactor, maxDelayMs, maxPages,
          mIn, mOut, waits, fIn, fOut>>

serviceVars == <<store, pc, page, pageUrl, collected, data, origin, lastResp, now,
                 lastSeedAttempt, lastPollAt, rpc, rdata, lastAttempt, answer>>
exportVars == <<xpc, xpage, xpageUrl, currentDelay, waitMs, xresp, seenIds, rows,
                delayMs, backoffFactor, maxDelayMs, maxPages, waits>>
mergeVars == <<mIn, mOut>>
functionVars == <<fIn, fOut>>

-----------------------------------------------------------------------------
(* Strings *)

Digits == {"0", "1", "2", "3", "4", "5", "6", "7", "8", "9"}
Letters == {"a", "b", "h", "s", "u", "_"}
IsDigit(c) == c \in Digits
\* \w of a JavaScript regular expression
IsWordChar(c) == c \in Digits \cup Letters

NoStr == << >>
Str7 == <<"7">>
Str8 == <<"8">>
StrPerma7 == <<"h", "/", "s", "/", "7">>
StrPerma8 == <<"h", "/", "s", "/", "8">>
StrMulti == <<"h", "/", "u", "/", "1", "/", "s", "/", "7">>
StrTail == <<"h", "/", "7", "a">>
StrName == <<"a", "b">>

\* /^\d+$/.test(s)
AllDigits(s) == Len(s) > 0 /\ \A i \in 1..Len(s) : IsDigit(s[i])

\* the end of the maximal run of digits that starts at position i
RECURSIVE DigitRunEnd(_, _)
DigitRunEnd(s, i) ==
    IF i < Len(s) /\ IsDigit(s[i + 1]) THEN DigitRunEnd(s, i + 1) ELSE i

\* /\/(\d+)(?:\b|$)/ matches at the slash in position i: digits follow the
\* slash, and the greedy run ends at the end of the string or before a
\* non-word character (inside or right after a run of digits followed by a
\* word character there is no \b, so backtracking finds nothing)
SlashDigitsAt(s, i) ==
    /\ i < Len(s)
    /\ s[i] = "/"
    /\ IsDigit(s[i + 1])
    /\ LET e == DigitRunEnd(s, i + 1)
       IN  e = Len(s) \/ ~IsWordChar(s[e + 1])

extractNumericId(value) ==
    LET hits == {i \in 1..Len(value) : SlashDigitsAt(value, i)}
    IN  IF value = NoStr \/ hits = {} THEN NoStr
        ELSE LET i == CHOOSE h \in hits : \A g \in hits : h <= g
             IN  SubSeq(value, i + 1, DigitRunEnd(value, i + 1))

\* a || b on strings
OrStr(a, b) == IF a # NoStr THEN a ELSE b

-----------------------------------------------------------------------------
(* Timestamps *)

NoTs == [t |-> 0, fmt |-> "none"]
BadTs == [t |-> 0, fmt |-> "bad"]
Iso(n) == [t |-> n, fmt |-> "iso"]
Alt(n) == [t |-> n, fmt |-> "alt"]

\* !Number.isNaN(Date.parse(ts)), also !Number.isNaN(new Date(ts))
ValidDate(ts) == ts.fmt \in {"iso", "alt"}
\* Date.parse(ts) when it is a number
DateParse(ts) == ts.t
\* new Date(ts).toISOString(), which throws a RangeError on an invalid date
toISOString(ts) == Iso(ts.t)

-----------------------------------------------------------------------------
(* Posts: canonicalId and normalizePosts *)

Post(id, ts, url, uri, content) ==
    [id |-> id, timestamp |-> ts, url |-> url, uri |-> uri, content |-> content]

canonicalId_ExtractOnly(post) ==
    OrStr(extractNumericId(post.id), extractNumericId(OrStr(post.url, post.uri)))

canonicalId(post) ==
    LET direct == post.id
        fromDirect == extractNumericId(direct)
        fromUrl == extractNumericId(OrStr(post.url, post.uri))
    IN  IF direct # NoStr /\ AllDigits(direct) THEN direct
        ELSE IF fromDirect # NoStr THEN fromDirect
        ELSE IF fromUrl # NoStr THEN fromUrl
        ELSE OrStr(direct, OrStr(post.url, post.uri))

\* lines 123-131: the record kept when `normalized` meets `existing`
MergePost_Overwrite(existing, normalized) ==
    [existing EXCEPT
        !.timestamp = IF ValidDate(normalized.timestamp)
                         /\ (~ValidDate(existing.timestamp)
                             \/ DateParse(normalized.timestamp) > DateParse(existing.timestamp))
                      THEN normalized.timestamp ELSE @,
        !.url = IF normalized.url # NoStr THEN normalized.url ELSE @,
        !.uri = IF normalized.uri # NoStr THEN normalized.uri ELSE @,
        !.content = IF normalized.content # "" THEN normalized.content ELSE @]

MergePost_KeepTimestamp(existing, normalized) ==
    [existing EXCEPT
        !.url = IF @ = NoStr /\ normalized.url # NoStr THEN normalized.url ELSE @,
        !.uri = IF @ = NoStr /\ normalized.uri # NoStr THEN normalized.uri ELSE @,
        !.content = IF @ = "" /\ normalized.content # "" THEN normalized.content ELSE @]

MergePost(existing, normalized) ==
    [existing EXCEPT
        !.timestamp = IF ValidDate(normalized.timestamp)
                         /\ (~ValidDate(existing.timestamp)
                             \/ DateParse(normalized.timestamp) > DateParse(existing.timestamp))
                      THEN normalized.timestamp ELSE @,
        !.url = IF @ = NoStr /\ normalized.url # NoStr THEN normalized.url ELSE @,
        !.uri = IF @ = NoStr /\ normalized.uri # NoStr THEN normalized.uri ELSE @,
        !.content = IF @ = "" /\ normalized.content # "" THEN normalized.content ELSE @]

\* byId.set(id, value): a Map keeps the position of a key it already holds
MapSet(byId, id, value) ==
    IF \E i \in 1..Len(byId) : byId[i].id = id
    THEN [i \in 1..Len(byId) |-> IF byId[i].id = id THEN value ELSE byId[i]]
    ELSE Append(byId, value)

RECURSIVE FoldPosts_NoDrop(_, _)
FoldPosts_NoDrop(byId, posts) ==
    IF posts = << >> THEN byId
    ELSE LET post == Head(posts)
             id == canonicalId(post)
             normalized == [post EXCEPT !.id = id]
             hit == {i \in 1..Len(byId) : byId[i].id = id}
         IN  IF hit = {} THEN FoldPosts_NoDrop(MapSet(byId, id, normalized), Tail(posts))
             ELSE LET existing == byId[CHOOSE i \in hit : TRUE]
                  IN  FoldPosts_NoDrop(MapSet(byId, id, MergePost(existing, normalized)),
                                       Tail(posts))

\* lines 113-133: the loop over posts, byId as the sequence of its values
RECURSIVE FoldPosts(_, _)
FoldPosts(byId, posts) ==
    IF posts = << >> THEN byId
    ELSE LET post == Head(posts)
             id == canonicalId(post)
             normalized == [post EXCEPT !.id = id]
             hit == {i \in 1..Len(byId) : byId[i].id = id}
         IN  IF id = NoStr THEN FoldPosts(byId, Tail(posts))
             ELSE IF hit = {} THEN FoldPosts(MapSet(byId, id, normalized), Tail(posts))
             ELSE LET existing == byId[CHOOSE i \in hit : TRUE]
                  IN  FoldPosts(MapSet(byId, id, MergePost(existing, normalized)),
                                Tail(posts))

\* the comparator of line 134, new Date(a.timestamp) - new Date(b.timestamp) > 0;
\* a NaN difference counts as 0
After(a, b) ==
    /\ ValidDate(a.timestamp)
    /\ ValidDate(b.timestamp)
    /\ DateParse(a.timestamp) > DateParse(b.timestamp)

\* Array.prototype.sort is stable: x goes behind every element not after it
RECURSIVE InsertSorted(_, _)
InsertSorted(sorted, x) ==
    IF sorted = << >> THEN <<x>>
    ELSE IF After(sorted[Len(sorted)], x)
         THEN Append(InsertSorted(SubSeq(sorted, 1, Len(sorted) - 1), x),
                     sorted[Len(sorted)])
         ELSE Append(sorted, x)

RECURSIVE SortFrom(_, _)
SortFrom(sorted, rest) ==
    IF rest = << >> THEN sorted ELSE SortFrom(InsertSorted(sorted, Head(rest)), Tail(rest))

SortByTimestamp_Unsorted(posts) == posts

SortByTimestamp(posts) == SortFrom(<< >>, posts)

normalizePosts_NoMerge(posts) ==
    SortByTimestamp(SelectSeq(posts, LAMBDA p : canonicalId(p) # NoStr))

normalizePosts(posts) == SortByTimestamp(FoldPosts(<< >>, posts))

\* The read projections: computeHourly and computeLatest

\* the minutes, seconds and milliseconds of an hour, in the unit of the
\* instants (line 158)
HourLen == 4

\* lines 156-160, for a timestamp that is a date
toHourKey(timestamp) == Iso((timestamp.t \div HourLen) * HourLen)

\* lines 165-168: buckets as the sequence of its entries
RECURSIVE CountHours(_, _)
CountHours(buckets, posts) ==
    IF posts = << >> THEN buckets
    ELSE LET hourKey == toHourKey(Head(posts).timestamp)
             hit == {i \in 1..Len(buckets) : buckets[i].hour = hourKey}
         IN  IF hit = {}
             THEN CountHours(Append(buckets, [hour |-> hourKey, count |-> 1]), Tail(posts))
             ELSE CountHours([i \in 1..Len(buckets) |->
                                 IF i \in hit THEN [buckets[i] EXCEPT !.count = @ + 1]
                                 ELSE buckets[i]],
                             Tail(posts))

\* the sort of line 171, stable
RECURSIVE InsertByHour(_, _)
InsertByHour(sorted, b) ==
    IF sorted = << >> THEN <<b>>
    ELSE IF DateParse(sorted[Len(sorted)].hour) > DateParse(b.hour)
         THEN Append(InsertByHour(SubSeq(sorted, 1, Len(sorted) - 1), b),
                     sorted[Len(sorted)])
         ELSE Append(sorted, b)

RECURSIVE SortByHour(_, _)
SortByHour(sorted, rest) ==
    IF rest = << >> THEN sorted ELSE SortByHour(InsertByHour(sorted, Head(rest)), Tail(rest))

computeHourly_NoNormalize(posts) ==
    IF \E i \in 1..Len(posts) : ~ValidDate(posts[i].timestamp)
    THEN [threw |-> TRUE, hours |-> << >>]
    ELSE [threw |-> FALSE, hours |-> SortByHour(<< >>, CountHours(<< >>, posts))]

\* lines 162-172; toHourKey throws the RangeError of toISOString on a
\* timestamp that is not a date
computeHourly(posts) ==
    LET normalized == normalizePosts(posts)
    IN  IF \E i \in 1..Len(normalized) : ~ValidDate(normalized[i].timestamp)
        THEN [threw |-> TRUE, hours |-> << >>]
        ELSE [threw |-> FALSE, hours |-> SortByHour(<< >>, CountHours(<< >>, normalized))]

\* new Date(post.timestamp) > new Date(latest.timestamp) of line 179; a date
\* that is not one compares as false
computeLatest_LastOnTies(posts) ==
    LET normalized == normalizePosts(posts)
        best == {i \in 1..Len(normalized) :
                    \A j \in 1..Len(normalized) : ~After(normalized[j], normalized[i])}
    IN  IF normalized = << >> \/ best = {} THEN << >>
        ELSE <<normalized[CHOOSE i \in best : \A j \in best : j <= i]>>

\* lines 177-180: the reduce, from the latest so far and the posts still to see
RECURSIVE LatestOf(_, _)
LatestOf(latest, posts) ==
    IF posts = << >> THEN latest
    ELSE IF After(Head(posts), latest) THEN LatestOf(Head(posts), Tail(posts))
    ELSE LatestOf(latest, Tail(posts))

\* lines 174-181: << >> for null, else the post in a sequence of one
computeLatest(posts) ==
    LET normalized == normalizePosts(posts)
    IN  IF normalized = << >> THEN << >>
        ELSE <<LatestOf(Head(normalized), Tail(normalized))>>

-----------------------------------------------------------------------------
(* The upstream API: statuses and page responses *)

Status(id, createdAt, url, uri, content) ==
    [id |-> id, created_at |-> createdAt, url |-> url, uri |-> uri, content |-> content]

\* lines 82-91: one item of the payload; "drop" is null, "throw" the RangeError
\* of toISOString on an invalid date
parseStatus(item) ==
    LET timestamp == item.created_at
        id == OrStr(item.id, OrStr(item.url, item.uri))
        url == OrStr(item.url, item.uri)
    IN  IF timestamp.fmt = "none" \/ id = NoStr THEN [kind |-> "drop"]
        ELSE IF ~ValidDate(timestamp) THEN [kind |-> "throw"]
        ELSE [kind |-> "post",
              post |-> Post(id, toISOString(timestamp), url, NoStr, item.content)]

RECURSIVE MapStatuses(_)
MapStatuses(items) ==
    IF items = << >> THEN << >>
    ELSE LET r == parseStatus(Head(items))
         IN  IF r.kind = "post" THEN <<r.post>> \o MapStatuses(Tail(items))
             ELSE MapStatuses(Tail(items))

\* lines 79-93; payload.isArray is Array.isArray(payload)
parseStatusList(payload) ==
    IF ~payload.isArray THEN [threw |-> FALSE, items |-> << >>]
    ELSE IF \E i \in 1..Len(payload.items) : parseStatus(payload.items[i]).kind = "throw"
         THEN [threw |-> TRUE, items |-> << >>]
         ELSE [threw |-> FALSE, items |-> MapStatuses(payload.items)]

StatusA == Status(StrPerma7, Alt(8), StrPerma7, NoStr, "c")
StatusB == Status(Str7, Alt(9), NoStr, NoStr, "")
StatusOld == Status(Str8, Alt(1), NoStr, NoStr, "d")
StatusNoId == Status(NoStr, Alt(9), NoStr, NoStr, "c")
StatusNoDate == Status(Str8, NoTs, NoStr, NoStr, "c")
StatusBadDate == Status(Str8, BadTs, NoStr, NoStr, "c")

Array(items) == [isArray |-> TRUE, items |-> items]
NotArray == [isArray |-> FALSE, items |-> << >>]

Payloads ==
    { Array(<< >>), Array(<<StatusA>>), Array(<<StatusB>>),
      Array(<<StatusOld>>), Array(<<StatusNoId>>), Array(<<StatusB, StatusNoDate>>),
      Array(<<StatusA, StatusBadDate>>), NotArray }

\* a response of fetch(pageUrl): its status, its content-type, whether its body
\* is JSON text, the value JSON.parse gives, and whether the link header
\* carries rel="next"
Response(status, json, parses, payload, next) ==
    [status |-> status, json |-> json, parses |-> parses, payload |-> payload,
     next |-> next]

Responses ==
    { Response(500, TRUE, TRUE, NotArray, FALSE),
      Response(429, TRUE, TRUE, NotArray, FALSE),
      Response(200, FALSE, TRUE, Array(<<StatusA>>), TRUE),
      Response(200, TRUE, FALSE, NotArray, TRUE) }
    \cup { Response(200, TRUE, TRUE, pl, nx) : pl \in Payloads, nx \in BOOLEAN }

\* one <item> block of the feed as extractTag reads it (lines 64-66): "" for a
\* tag that is missing or empty
FeedItem(guid, link, pubDate) == [guid |-> guid, link |-> link, pubDate |-> pubDate]

\* lines 63-73: one <item>; "throw" is the RangeError of toISOString on a
\* pubDate that is not a date; the post has an id and a timestamp only, and the
\* fields it lacks read as the empty string does
parseItem(chunk) ==
    LET id == OrStr(chunk.guid, chunk.link)
    IN  IF id = NoStr \/ chunk.pubDate.fmt = "none" THEN [kind |-> "drop"]
        ELSE IF ~ValidDate(chunk.pubDate) THEN [kind |-> "throw"]
        ELSE [kind |-> "post",
              post |-> Post(id, toISOString(chunk.pubDate), NoStr, NoStr, "")]

RECURSIVE MapItems(_)
MapItems(chunks) ==
    IF chunks = << >> THEN << >>
    ELSE LET r == parseItem(Head(chunks))
         IN  IF r.kind = "post" THEN <<r.post>> \o MapItems(Tail(chunks))
             ELSE MapItems(Tail(chunks))

\* lines 58-77, on the sequence of the <item> blocks of xml
parseFeed(xml) ==
    IF \E i \in 1..Len(xml) : parseItem(xml[i]).kind = "throw"
    THEN [threw |-> TRUE, items |-> << >>]
    ELSE [threw |-> FALSE, items |-> MapItems(xml)]

\* a response of fetch(SOURCE_URL) on the syndication path (line 233): its
\* status, its content-type ("json" for one that includes application/json,
\* "xml" for a feed type, "other" for any other), whether its body is text of
\* the type it is served as, the value JSON.parse gives, and the <item> blocks
\* the regular expression of line 60 finds in the body
FeedResponse(status, ctype, parses, payload, xml) ==
    [status |-> status, ctype |-> ctype, parses |-> parses, payload |-> payload,
     xml |-> xml]

FeedResponses ==
    { FeedResponse(500, "xml", TRUE, NotArray, << >>),
      FeedResponse(429, "xml", TRUE, NotArray, << >>),
      FeedResponse(200, "other", TRUE, NotArray, << >>),
      FeedResponse(200, "xml", FALSE, NotArray, << >>),
      FeedResponse(200, "json", FALSE, NotArray, << >>) }
    \cup { FeedResponse(200, "json", TRUE, pl, << >>) :
              pl \in {Array(<<StatusA>>), Array(<<StatusA, StatusBadDate>>), NotArray} }
    \cup { FeedResponse(200, "xml", TRUE, NotArray, xml) :
              xml \in { << >>, <<FeedItem(Str7, NoStr, Alt(8))>>,
                        <<FeedItem(NoStr, StrPerma8, Alt(9)), FeedItem(Str8, NoStr, NoTs)>>,
                        <<FeedItem(Str8, StrPerma8, BadTs)>> } }

\* response.ok
Ok(resp) == resp.status >= 200 /\ resp.status <= 299

-----------------------------------------------------------------------------
(* Configuration of the service (lines 18-20).  The unit of time is one poll *)
(* interval: POLL_INTERVAL_MS, HISTORY_WINDOW_HOURS and TRUTHSOCIAL_MAX_PAGES *)
(* are set in the environment to one unit, three units and two pages.        *)

POLL_INTERVAL_MS == 1
HISTORY_WINDOW == 3
MAX_STATUS_PAGES == 2

\* Date.now() when the process starts
StartTime == 10
\* the clock stops at StartTime + MaxTime
MaxTime == 1

Min(a, b) == IF a <= b THEN a ELSE b
Max(a, b) == IF a >= b THEN a ELSE b

\* lines 149-154
shouldFetchMore(items, nowMs) ==
    IF items = << >> THEN FALSE
    ELSE IF \E i \in 1..Len(items) : ~ValidDate(items[i].timestamp) THEN FALSE
    ELSE LET oldest == CHOOSE t \in {DateParse(items[i].timestamp) : i \in 1..Len(items)} :
                          \A i \in 1..Len(items) : t <= DateParse(items[i].timestamp)
         IN  nowMs - oldest < HISTORY_WINDOW

\* one iteration of the loop of fetchStatusPages (lines 186-213) on response resp:
\* "throw" leaves the function with an error, "return" with collected,
\* "more" goes round the loop again
PageStep_KeepPartial(col, pg, resp, nowMs) ==
    LET parsed == parseStatusList(resp.payload)
        col2 == col \o parsed.items
    IN  IF ~Ok(resp) \/ ~resp.json \/ ~resp.parses \/ parsed.threw
        THEN [kind |-> "return", collected |-> col, pageUrl |-> FALSE]
        ELSE IF parsed.items = << >>
        THEN [kind |-> "return", collected |-> col, pageUrl |-> TRUE]
        ELSE IF ~shouldFetchMore(col2, nowMs)
        THEN [kind |-> "return", collected |-> col2, pageUrl |-> resp.next]
        ELSE IF pg + 1 < MAX_STATUS_PAGES /\ resp.next
        THEN [kind |-> "more", collected |-> col2, pageUrl |-> resp.next]
        ELSE [kind |-> "return", collected |-> col2, pageUrl |-> resp.next]

PageStep_IgnoreWindow(col, pg, resp, nowMs) ==
    LET parsed == parseStatusList(resp.payload)
        col2 == col \o parsed.items
    IN  IF ~Ok(resp) \/ ~resp.json \/ ~resp.parses \/ parsed.threw
        THEN [kind |-> "throw", collected |-> col, pageUrl |-> TRUE]
        ELSE IF parsed.items = << >>
        THEN [kind |-> "return", collected |-> col, pageUrl |-> TRUE]
        ELSE IF pg + 1 < MAX_STATUS_PAGES /\ resp.next
        THEN [kind |-> "more", collected |-> col2, pageUrl |-> resp.next]
        ELSE [kind |-> "return", collected |-> col2, pageUrl |-> resp.next]

PageStep_EmptyPageFails(col, pg, resp, nowMs) ==
    LET parsed == parseStatusList(resp.payload)
        col2 == col \o parsed.items
    IN  IF ~Ok(resp) \/ ~resp.json \/ ~resp.parses \/ parsed.threw
           \/ parsed.items = << >>
        THEN [kind |-> "throw", collected |-> col, pageUrl |-> TRUE]
        ELSE IF ~shouldFetchMore(col2, nowMs)
        THEN [kind |-> "return", collected |-> col2, pageUrl |-> resp.next]
        ELSE IF pg + 1 < MAX_STATUS_PAGES /\ resp.next
        THEN [kind |-> "more", collected |-> col2, pageUrl |-> resp.next]
        ELSE [kind |-> "return", collected |-> col2, pageUrl |-> resp.next]

PageStep(col, pg, resp, nowMs) ==
    LET parsed == parseStatusList(resp.payload)
        col2 == col \o parsed.items
    IN  IF ~Ok(resp) \/ ~resp.json \/ ~resp.parses \/ parsed.threw
        THEN [kind |-> "throw", collected |-> col, pageUrl |-> TRUE]
        ELSE IF parsed.items = << >>
        THEN [kind |-> "return", collected |-> col, pageUrl |-> TRUE]
        ELSE IF ~shouldFetchMore(col2, nowMs)
        THEN [kind |-> "return", collected |-> col2, pageUrl |-> resp.next]
        ELSE IF pg + 1 < MAX_STATUS_PAGES /\ resp.next
        THEN [kind |-> "more", collected |-> col2, pageUrl |-> resp.next]
        ELSE [kind |-> "return", collected |-> col2, pageUrl |-> resp.next]

-----------------------------------------------------------------------------
(* The polling service *)

\* pollFeed invocations that can be in flight together, and read requests
Pollers == {1, 2}
Requests == {"r1"}

NoPoll == << >>

InFlight(p) == pc[p] \in {"fetch", "load", "save"}

\* a slot whose pollFeed has returned and whose caller is not waiting for it
Free(p) ==
    /\ ~InFlight(p)
    /\ \A r \in Requests : ~(rpc[r] = "awaitPoll" /\ origin[p] = r)

FreeSlot == CHOOSE p \in Pollers : Free(p) /\ \A q \in Pollers : Free(q) => p <= q

\* what the code tests of a response: line 188, line 193, lines 197-201, and
\* what parseStatusList makes of the payload (lines 202-203): "raised" when the
\* date of an item makes toISOString throw, "empty" when no item is usable
Classify(resp) ==
    IF resp.status = 429 THEN "429"
    ELSE IF ~Ok(resp) THEN "status"
    ELSE IF ~resp.json THEN "content-type"
    ELSE IF ~resp.parses THEN "body"
    ELSE IF parseStatusList(resp.payload).threw THEN "raised"
    ELSE IF parseStatusList(resp.payload).items = << >> THEN "empty"
    ELSE "ok"

\* pollFeed, called at the instant `at`, up to its first await (lines 218-231,
\* 184-187): the first page is requested
StartPoll(p, who, at) ==
    /\ pc' = [pc EXCEPT ![p] = "fetch"]
    /\ page' = [page EXCEPT ![p] = 0]
    /\ pageUrl' = [pageUrl EXCEPT ![p] = TRUE]
    /\ collected' = [collected EXCEPT ![p] = << >>]
    /\ data' = [data EXCEPT ![p] = << >>]
    /\ origin' = [origin EXCEPT ![p] = who]
    /\ lastResp' = [lastResp EXCEPT ![p] = "none"]
    /\ lastAttempt' = at

\* what a read route has sent: nothing yet, the posts ensureSeeded returned
\* with lastPollAt (lines 268-275, 279-282), or no answer because the handler
\* rejected
NoAnswer == [status |-> "none", posts |-> << >>, polledAt |-> NoPoll]
ErrorAnswer == [status |-> "error", posts |-> << >>, polledAt |-> NoPoll]
\* posts is data.posts as the route holds it after its calls; latest and
\* totalPosts are sent by GET /latest (lines 269-275), hours by
\* GET /history/hourly (line 281)
JsonAnswer(posts, polledAt) ==
    [status |-> "ok", posts |-> posts, polledAt |-> polledAt,
     latest |-> computeLatest(posts), totalPosts |-> Len(normalizePosts(posts)),
     hours |-> computeHourly(posts)]

\* the module has been loaded: no posts.json yet, lines 22-23, and the
\* pollFeed() of line 294 waits for its first page
ServiceStarted ==
    /\ store = << >>
    /\ pc = [p \in Pollers |-> IF p = 1 THEN "fetch" ELSE "idle"]
    /\ page = [p \in Pollers |-> 0]
    /\ pageUrl = [p \in Pollers |-> p = 1]
    /\ collected = [p \in Pollers |-> << >>]
    /\ data = [p \in Pollers |-> << >>]
    /\ origin = [p \in Pollers |-> "timer"]
    /\ lastResp = [p \in Pollers |-> "none"]
    /\ now = StartTime
    /\ lastSeedAttempt = 0
    /\ lastPollAt = NoPoll
    /\ rpc = [r \in Requests |-> "idle"]
    /\ rdata = [r \in Requests |-> << >>]
    /\ lastAttempt = StartTime
    /\ answer = [r \in Requests |-> NoAnswer]

\* pollFeed leaves lines 244-249: its locals are gone
Returned(p, how) ==
    /\ pc' = [pc EXCEPT ![p] = how]
    /\ page' = [page EXCEPT ![p] = 0]
    /\ pageUrl' = [pageUrl EXCEPT ![p] = FALSE]
    /\ collected' = [collected EXCEPT ![p] = << >>]
    /\ data' = [data EXCEPT ![p] = << >>]

\* a poll interval goes by and setInterval (line 295) calls pollFeed
TimerPoll ==
    /\ now < StartTime + MaxTime
    /\ \E p \in Pollers : Free(p)
    /\ now' = now + POLL_INTERVAL_MS
    /\ StartPoll(FreeSlot, "timer", now + POLL_INTERVAL_MS)
    /\ UNCHANGED <<store, lastSeedAttempt, lastPollAt, rpc, rdata, answer,
                   exportVars, mergeVars, functionVars>>

\* fetch(pageUrl) of line 187 resolves with resp and the loop body runs
\* (lines 188-212); an error goes to the catch of lines 250-252 (page and
\* collected stay as they were at the throw, to show what the error discards);
\* when fetchStatusPages returns, pollFeed goes on with lines 244-249 up to
\* its next await
FetchPage(p, resp) ==
    /\ pc[p] = "fetch"
    /\ lastResp' = [lastResp EXCEPT ![p] = Classify(resp)]
    /\ LET r == PageStep(collected[p], page[p], resp, now)
       IN  CASE r.kind = "throw" ->
                    /\ pc' = [pc EXCEPT ![p] = "failed"]
                    /\ UNCHANGED <<page, pageUrl, collected, store, lastPollAt>>
             [] r.kind = "more" ->
                    /\ collected' = [collected EXCEPT ![p] = r.collected]
                    /\ page' = [page EXCEPT ![p] = @ + 1]
                    /\ pageUrl' = [pageUrl EXCEPT ![p] = r.pageUrl]
                    /\ UNCHANGED <<pc, store, lastPollAt>>
             [] r.kind = "return" /\ r.collected # << >> ->
                    /\ collected' = [collected EXCEPT ![p] = r.collected]
                    /\ page' = [page EXCEPT ![p] = 0]
                    /\ pageUrl' = [pageUrl EXCEPT ![p] = FALSE]
                    /\ pc' = [pc EXCEPT ![p] = "load"]
                    /\ UNCHANGED <<store, lastPollAt>>
             [] r.kind = "return" /\ r.collected = << >> ->
                    /\ Returned(p, "done")
                    /\ lastPollAt' = <<now>>
                    /\ UNCHANGED store
    /\ UNCHANGED <<data, origin, now, lastSeedAttempt, rpc, rdata, lastAttempt, answer,
                   exportVars, mergeVars, functionVars>>

\* lines 238-242: what the syndication path makes of an ok response;
\* JSON.parse throws on a body that is not JSON text
FeedIncoming(resp) ==
    IF resp.ctype = "json"
    THEN IF resp.parses THEN parseStatusList(resp.payload)
         ELSE [threw |-> TRUE, items |-> << >>]
    ELSE parseFeed(resp.xml)

\* what the response was like, as Classify tells it for a page
ClassifyFeed(resp) ==
    IF resp.status = 429 THEN "429"
    ELSE IF ~Ok(resp) THEN "status"
    ELSE IF resp.ctype = "other" THEN "content-type"
    ELSE IF ~resp.parses THEN "body"
    ELSE IF FeedIncoming(resp).threw THEN "raised"
    ELSE IF FeedIncoming(resp).items = << >> THEN "empty"
    ELSE "ok"

\* SOURCE_URL is a syndication feed: fetch(SOURCE_URL) of line 233 resolves
\* with resp, and pollFeed goes on with lines 234-249 up to its next await
FetchFeed(p, resp) ==
    /\ pc[p] = "fetch"
    /\ lastResp' = [lastResp EXCEPT ![p] = ClassifyFeed(resp)]
    /\ LET incoming == FeedIncoming(resp)
       IN  CASE ~Ok(resp) \/ incoming.threw ->
                    /\ pc' = [pc EXCEPT ![p] = "failed"]
                    /\ UNCHANGED <<page, pageUrl, collected, store, lastPollAt>>
             [] Ok(resp) /\ ~incoming.threw /\ incoming.items # << >> ->
                    /\ collected' = [collected EXCEPT ![p] = incoming.items]
                    /\ pageUrl' = [pageUrl EXCEPT ![p] = FALSE]
                    /\ pc' = [pc EXCEPT ![p] = "load"]
                    /\ UNCHANGED <<page, store, lastPollAt>>
             [] Ok(resp) /\ ~incoming.threw /\ incoming.items = << >> ->
                    /\ Returned(p, "done")
                    /\ lastPollAt' = <<now>>
                    /\ UNCHANGED store
    /\ UNCHANGED <<data, origin, now, lastSeedAttempt, rpc, rdata, lastAttempt, answer,
                   exportVars, mergeVars, functionVars>>

\* loadData of line 245 resolves (lines 29-40; a missing file reads as no posts)
LoadForMerge(p) ==
    /\ pc[p] = "load"
    /\ data' = [data EXCEPT ![p] = store]
    /\ pc' = [pc EXCEPT ![p] = "save"]
    /\ UNCHANGED <<store, page, pageUrl, collected, origin, lastResp, now,
                   lastSeedAttempt, lastPollAt, rpc, rdata, lastAttempt, answer,
                   exportVars, mergeVars, functionVars>>

merged_IncomingOnly(p) == normalizePosts(collected[p])

\* line 246: what pollFeed hands to saveData
merged(p) == normalizePosts(data[p] \o collected[p])

\* saveData of line 247 writes the file (lines 42-45), then line 249
SaveMerged(p) ==
    /\ pc[p] = "save"
    /\ store' = merged(p)
    /\ lastPollAt' = <<now>>
    /\ Returned(p, "done")
    /\ UNCHANGED <<origin, lastResp, now, lastSeedAttempt, rpc, rdata, lastAttempt,
                   answer, exportVars, mergeVars, functionVars>>

\* readFile or JSON.parse of loadData fails with an error other than ENOENT
\* (line 38), or mkdir or writeFile of saveData fails with nothing written:
\* the catch of lines 250-252
StorageError_StampsPoll(p) ==
    /\ pc[p] \in {"load", "save"}
    /\ Returned(p, "failed")
    /\ lastPollAt' = <<now>>
    /\ UNCHANGED <<store, origin, lastResp, now, lastSeedAttempt, rpc,
                   rdata, lastAttempt, answer, exportVars, mergeVars, functionVars>>

StorageError_ReadsEmpty(p) ==
    /\ pc[p] \in {"load", "save"}
    /\ IF pc[p] = "load"
       THEN /\ data' = [data EXCEPT ![p] = << >>]
            /\ pc' = [pc EXCEPT ![p] = "save"]
            /\ UNCHANGED <<page, pageUrl, collected>>
       ELSE Returned(p, "failed")
    /\ UNCHANGED <<store, origin, lastResp, now, lastSeedAttempt, lastPollAt, rpc,
                   rdata, lastAttempt, answer, exportVars, mergeVars, functionVars>>

StorageError(p) ==
    /\ pc[p] \in {"load", "save"}
    /\ Returned(p, "failed")
    /\ UNCHANGED <<store, origin, lastResp, now, lastSeedAttempt, lastPollAt, rpc,
                   rdata, lastAttempt, answer, exportVars, mergeVars, functionVars>>

\* a read route (line 268 or 279) calls ensureSeeded; loadData of line 256 resolves
RequestLoad(r) ==
    /\ rpc[r] \in {"idle", "rejected"}
    /\ rdata' = [rdata EXCEPT ![r] = store]
    /\ rpc' = [rpc EXCEPT ![r] = "loaded"]
    /\ answer' = [answer EXCEPT ![r] = NoAnswer]
    /\ UNCHANGED <<store, pc, page, pageUrl, collected, data, origin, lastResp, now,
                   lastSeedAttempt, lastPollAt, lastAttempt, exportVars, mergeVars,
                   functionVars>>

\* lines 257-261: ensureSeeded returns the data it has read, and the route answers
RequestServed_WritesBack(r) ==
    /\ rpc[r] = "loaded"
    /\ rdata[r] # << >> \/ now - lastSeedAttempt < POLL_INTERVAL_MS
    /\ rpc' = [rpc EXCEPT ![r] = "idle"]
    /\ rdata' = [rdata EXCEPT ![r] = << >>]
    /\ answer' = [answer EXCEPT ![r] = JsonAnswer(rdata[r], lastPollAt)]
    /\ store' = normalizePosts(rdata[r])
    /\ UNCHANGED <<pc, page, pageUrl, collected, data, origin, lastResp, now,
                   lastSeedAttempt, lastPollAt, lastAttempt, exportVars, mergeVars,
                   functionVars>>

RequestServed(r) ==
    /\ rpc[r] = "loaded"
    /\ rdata[r] # << >> \/ now - lastSeedAttempt < POLL_INTERVAL_MS
    /\ rpc' = [rpc EXCEPT ![r] = "idle"]
    /\ rdata' = [rdata EXCEPT ![r] = << >>]
    /\ answer' = [answer EXCEPT ![r] = JsonAnswer(rdata[r], lastPollAt)]
    /\ UNCHANGED <<store, pc, page, pageUrl, collected, data, origin, lastResp, now,
                   lastSeedAttempt, lastPollAt, lastAttempt, exportVars, mergeVars,
                   functionVars>>

\* lines 257-263: ensureSeeded starts a poll and waits for it
RequestSeed(r) ==
    /\ rpc[r] = "loaded"
    /\ rdata[r] = << >>
    /\ ~(now - lastSeedAttempt < POLL_INTERVAL_MS)
    /\ \E p \in Pollers : Free(p)
    /\ lastSeedAttempt' = now
    /\ StartPoll(FreeSlot, r, now)
    /\ rpc' = [rpc EXCEPT ![r] = "awaitPoll"]
    /\ UNCHANGED <<store, now, lastPollAt, rdata, answer, exportVars, mergeVars,
                   functionVars>>

\* line 264: the awaited pollFeed has returned, loadData reads the file again,
\* and the route answers with what it read
RequestReload_Rethrows(r) ==
    /\ rpc[r] = "awaitPoll"
    /\ \E p \in Pollers : origin[p] = r /\ ~InFlight(p)
    /\ rpc' = [rpc EXCEPT ![r] = "idle"]
    /\ rdata' = [rdata EXCEPT ![r] = << >>]
    /\ answer' = [answer EXCEPT ![r] =
                      IF \E p \in Pollers : origin[p] = r /\ pc[p] = "failed"
                      THEN ErrorAnswer ELSE JsonAnswer(store, lastPollAt)]
    /\ UNCHANGED <<store, pc, page, pageUrl, collected, data, origin, lastResp, now,
                   lastSeedAttempt, lastPollAt, lastAttempt, exportVars, mergeVars,
                   functionVars>>

RequestReload(r) ==
    /\ rpc[r] = "awaitPoll"
    /\ \E p \in Pollers : origin[p] = r /\ ~InFlight(p)
    /\ rpc' = [rpc EXCEPT ![r] = "idle"]
    /\ rdata' = [rdata EXCEPT ![r] = << >>]
    /\ answer' = [answer EXCEPT ![r] = JsonAnswer(store, lastPollAt)]
    /\ UNCHANGED <<store, pc, page, pageUrl, collected, data, origin, lastResp, now,
                   lastSeedAttempt, lastPollAt, lastAttempt, exportVars, mergeVars,
                   functionVars>>

\* loadData of line 256 or of line 264 fails with an error other than ENOENT
\* (line 38): ensureSeeded rejects and the route sends no answer
RequestStorageError(r) ==
    /\ \/ rpc[r] \in {"idle", "rejected"}
       \/ rpc[r] = "awaitPoll" /\ \E p \in Pollers : origin[p] = r /\ ~InFlight(p)
    /\ rpc' = [rpc EXCEPT ![r] = "rejected"]
    /\ rdata' = [rdata EXCEPT ![r] = << >>]
    /\ answer' = [answer EXCEPT ![r] = ErrorAnswer]
    /\ UNCHANGED <<store, pc, page, pageUrl, collected, data, origin, lastResp, now,
                   lastSeedAttempt, lastPollAt, lastAttempt, exportVars, mergeVars,
                   functionVars>>

\* the service is not running
ServiceOff ==
    /\ store = << >>
    /\ pc = [p \in Pollers |-> "idle"]
    /\ page = [p \in Pollers |-> 0]
    /\ pageUrl = [p \in Pollers |-> FALSE]
    /\ collected = [p \in Pollers |-> << >>]
    /\ data = [p \in Pollers |-> << >>]
    /\ origin = [p \in Pollers |-> "timer"]
    /\ lastResp = [p \in Pollers |-> "none"]
    /\ now = StartTime
    /\ lastSeedAttempt = 0
    /\ lastPollAt = NoPoll
    /\ rpc = [r \in Requests |-> "idle"]
    /\ rdata = [r \in Requests |-> << >>]
    /\ lastAttempt = StartTime
    /\ answer = [r \in Requests |-> NoAnswer]

\* the export tool is not running
ExportOff ==
    /\ xpc = "off"
    /\ xpage = 0
    /\ xpageUrl = FALSE
    /\ currentDelay = 0
    /\ waitMs = 0
    /\ xresp = [status |-> 0, retryAfter |-> [nan |-> FALSE, v |-> 0]]
    /\ seenIds = {}
    /\ rows = << >>
    /\ delayMs = 0
    /\ backoffFactor = <<1, 1>>
    /\ maxDelayMs = 0
    /\ maxPages = 0
    /\ waits = << >>

\* normalizePosts is not being applied on its own
MergeOff ==
    /\ mIn = << >>
    /\ mOut = << >>

\* no decoder, canonicalId or computeHourly is being applied on its own
FunctionsOff ==
    /\ fIn = [kind |-> "off"]
    /\ fOut = [kind |-> "off"]

Init == ServiceStarted /\ ExportOff /\ MergeOff /\ FunctionsOff

Next ==
    \/ TimerPoll
    \/ \E p \in Pollers, resp \in Responses : FetchPage(p, resp)
    \/ \E p \in Pollers : LoadForMerge(p)
    \/ \E p \in Pollers : SaveMerged(p)
    \/ \E p \in Pollers : StorageError(p)
    \/ \E r \in Requests : RequestLoad(r)
    \/ \E r \in Requests : RequestServed(r)
    \/ \E r \in Requests : RequestSeed(r)
    \/ \E r \in Requests : RequestReload(r)
    \/ \E r \in Requests : RequestStorageError(r)

Spec == Init /\ [][Next]_vars

\* the service with a SOURCE_URL that has no "/api/" in it (line 230): every
\* poll cycle takes the syndication path
NextFeed ==
    \/ TimerPoll
    \/ \E p \in Pollers, resp \in FeedResponses : FetchFeed(p, resp)
    \/ \E p \in Pollers : LoadForMerge(p)
    \/ \E p \in Pollers : SaveMerged(p)
    \/ \E p \in Pollers : StorageError(p)
    \/ \E r \in Requests : RequestLoad(r)
    \/ \E r \in Requests : RequestServed(r)
    \/ \E r \in Requests : RequestSeed(r)
    \/ \E r \in Requests : RequestReload(r)
    \/ \E r \in Requests : RequestStorageError(r)

SpecFeed == Init /\ [][NextFeed]_vars

-----------------------------------------------------------------------------
(* Claims about the polling service, checked under Spec *)

CanonicalIds(posts) == {canonicalId(posts[i]) : i \in 1..Len(posts)}

\* p's saveData completes in this step
Saves(p) == pc[p] = "save" /\ pc'[p] = "done"

\* C1: the persisted posts never hold two posts with the same canonical id
C1_UniqueCanonicalId ==
    \A i, j \in 1..Len(store) :
        i # j => canonicalId(store[i]) # canonicalId(store[j])

\* the status with the permalink id and the status with the bare id 7 have met
\* in one stored post, next to the post 8
C1_Witness ==
    /\ Len(store) = 2
    /\ \E i \in 1..Len(store) :
          /\ store[i].id = Str7
          /\ store[i].timestamp = Iso(9)
          /\ store[i].url = StrPerma7

\* C2: no lost updates: a poll cycle that completes leaves in the persisted
\* set every post that was persisted when it wrote and every post it fetched,
\* so that after two overlapping cycles nothing of either is missing
C2_NoLostUpdate ==
    [][\A p \in Pollers :
          Saves(p) =>
              (CanonicalIds(store) \cup CanonicalIds(collected[p]))
                  \subseteq CanonicalIds(store')]_vars

\* C3: at most one poll cycle is in flight at any time
C3_OnePollInFlight == Cardinality({p \in Pollers : InFlight(p)}) <= 1

ErrorResponses == {"429", "status", "content-type", "body"}

\* C4: once a page request of a poll cycle has ended in a transport or format
\* error, the cycle is failed and writes nothing: the persisted set changes
\* only by the save of another cycle
C4_FailedFetchNoMerge ==
    [][\A p \in Pollers :
          lastResp'[p] \in ErrorResponses =>
              /\ pc'[p] = "failed"
              /\ store' # store => \E q \in Pollers \ {p} : Saves(q)]_vars

\* the second page request fails after the first page has given a post
C4_Witness ==
    \E p \in Pollers :
        /\ pc[p] = "failed"
        /\ lastResp[p] \in ErrorResponses
        /\ page[p] = 1
        /\ collected[p] # << >>
        /\ store = << >>

\* C5: a 429 never fails the fetch, which requests the same page again; any
\* other non-success status aborts the fetch
C5_RateLimitRetried ==
    \A p \in Pollers :
        /\ lastResp[p] = "429" => pc[p] = "fetch"
        /\ lastResp[p] = "status" => pc[p] = "failed"

\* C7: the stored timestamp of an id never moves to an earlier instant
C7_TimestampNeverEarlier ==
    [][\A i \in 1..Len(store), j \in 1..Len(store') :
          store[i].id = store'[j].id =>
              DateParse(store'[j].timestamp) >= DateParse(store[i].timestamp)]_vars

\* C10: after every save the persisted list is in ascending order of timestamp
C10_StoreSorted ==
    \A i \in 1..(Len(store) - 1) :
        DateParse(store[i].timestamp) <= DateParse(store[i + 1].timestamp)

\* a cycle that had read the post 7 and fetched the older post 8 has saved
C10_Witness ==
    /\ Len(store) = 2
    /\ store[1].id = Str8
    /\ store[2].id = Str7
    /\ DateParse(store[1].timestamp) < DateParse(store[2].timestamp)

\* C11: a save made from a snapshot that is still the persisted set, as every
\* save is when poll cycles do not overlap, keeps every canonical id that was
\* persisted, and no other step of a cycle, successful or failed, removes one
C11_NeverDeleted ==
    [][(\A p \in Pollers : Saves(p) => data[p] = store)
          => CanonicalIds(store) \subseteq CanonicalIds(store')]_vars

\* poll cycles have run one after the other in the first slot; a read request
\* was answered with the posts of an earlier cycle, and a later cycle has
\* saved more next to them
C11_Witness ==
    /\ pc[1] = "done"
    /\ pc[2] = "idle"
    /\ \E r \in Requests :
          /\ answer[r].status = "ok"
          /\ answer[r].posts # << >>
          /\ answer[r].polledAt # lastPollAt
          /\ Len(store) > Len(answer[r].posts)
          /\ CanonicalIds(answer[r].posts) \subseteq CanonicalIds(store)

\* ensureSeeded of request r calls pollFeed in this step
SeedStarts(r) == rpc[r] = "loaded" /\ rpc'[r] = "awaitPoll"

\* C12: a read request starts a seed fetch only when it has read an empty set
\* and at least one poll interval after the latest fetch attempt, be that the
\* start-up poll, a timer poll or another seed
C12_SeedGated ==
    [][\A r \in Requests :
          SeedStarts(r) =>
              /\ rdata[r] = << >>
              /\ now - lastAttempt >= POLL_INTERVAL_MS]_vars

\* p's poll cycle completes successfully in this step: without records
\* (line 244 skipped) or with its save
Succeeds(p) == pc[p] \in {"fetch", "save"} /\ pc'[p] = "done"

\* C13: lastPollAt is null at the start, is set, to the current instant, only
\* by a cycle that completes successfully, and is left as it is by a cycle that
\* fails; GET /latest returns it as polledAt
C13_LastPollAtOnSuccess ==
    /\ lastPollAt = NoPoll
    /\ [][/\ lastPollAt' # lastPollAt =>
                /\ \E p \in Pollers : Succeeds(p)
                /\ lastPollAt' = <<now>>
          /\ \A p \in Pollers : Succeeds(p) => lastPollAt' = <<now>>
          /\ \A p \in Pollers :
                pc[p] # "failed" /\ pc'[p] = "failed" => lastPollAt' = lastPollAt
          /\ \A r \in Requests :
                answer'[r] # answer[r] /\ answer'[r].status = "ok" =>
                    answer'[r].polledAt = lastPollAt]_vars

\* the start-up cycle succeeded, and the next cycle, at a later instant, lost
\* its records to a persistence error
C13_Witness ==
    /\ lastPollAt = <<StartTime>>
    /\ now > StartTime
    /\ pc[1] = "failed"
    /\ lastResp[1] = "ok"
    /\ pc[2] = "idle"

\* C14: a read request that ends with its reads of the persisted set done
\* answers with the posts it read last, whatever became of the fetch it
\* started or of the timer's; only a failed read of the persisted set leaves a
\* request without an answer
C14_ReadsSurviveFetchErrors ==
    [][\A r \in Requests :
          /\ rpc[r] = "loaded" /\ rpc'[r] = "idle" =>
                answer'[r] = JsonAnswer(rdata[r], lastPollAt)
          /\ rpc[r] = "awaitPoll" /\ rpc'[r] = "idle" =>
                answer'[r] = JsonAnswer(store, lastPollAt)
          /\ answer'[r].status = "error" /\ answer[r].status # "error" =>
                rpc'[r] = "rejected"]_vars

\* the fetch that a read request started ended in a transport or format
\* error, and the request was answered with the empty set
C14_Witness ==
    \E r \in Requests, p \in Pollers :
        /\ origin[p] = r
        /\ pc[p] = "failed"
        /\ lastResp[p] \in ErrorResponses
        /\ rpc[r] = "idle"
        /\ answer[r] = JsonAnswer(<< >>, NoPoll)

\* the response to p's feed request arrives in this step
FeedArrives(p) == pc[p] = "fetch" /\ pc'[p] # "fetch"

\* C23: on the syndication path too, a response with an unexpected content
\* type or an unparseable body fails the poll cycle: nothing is persisted and
\* the cycle is not recorded as a successful poll
C23_FormatErrorFatal ==
    [][\A p \in Pollers :
          FeedArrives(p) /\ lastResp'[p] \in {"content-type", "body"} =>
              /\ pc'[p] = "failed"
              /\ store' = store
              /\ lastPollAt' = lastPollAt]_vars

\* a read route sends its answer in this step
Answers(r) == rpc'[r] = "idle" /\ rpc[r] # "idle"

\* C22: the persisted set changes only in the step in which a poll cycle saves
\* what it merged; a read route answers with the projections of the list it
\* holds and leaves the persisted set, its own list and the lists the poll
\* cycles hold as they were
C22_ReadsLeaveStore ==
    [][/\ store' # store => \E p \in Pollers : Saves(p) /\ store' = merged(p)
       /\ \A r \in Requests :
             Answers(r) =>
                 /\ store' = store
                 /\ data' = data
                 /\ collected' = collected
                 /\ answer'[r].posts \in {rdata[r], store}
                 /\ answer'[r].latest = computeLatest(answer'[r].posts)
                 /\ answer'[r].totalPosts = Len(answer'[r].posts)]_vars

\* a request was answered with the two persisted posts, the later of them as
\* the latest, while a poll cycle held its own copy of the set, and the set is
\* still what it was
C22_Witness ==
    \E r \in Requests, p \in Pollers :
        /\ answer[r].status = "ok"
        /\ Len(answer[r].posts) = 2
        /\ answer[r].posts = store
        /\ answer[r].latest = <<store[2]>>
        /\ pc[p] = "save"
        /\ data[p] = store

\* C24: a read of the persisted document that succeeds gives the persisted
\* set, which is the empty set as long as no document has been written; a read
\* or write that fails in a poll cycle fails the cycle, which persists nothing
\* and is not recorded as a successful poll, and a read that fails in a read
\* request leaves the request rejected, without an answer
C24_StorageFailuresPropagate ==
    [][/\ \A p \in Pollers :
             /\ pc[p] = "load" /\ pc'[p] = "save" => data'[p] = store
             /\ pc[p] \in {"load", "save"} /\ pc'[p] = "failed" =>
                   /\ store' = store
                   /\ lastPollAt' = lastPollAt
       /\ \A r \in Requests :
             /\ rpc'[r] = "loaded" /\ rpc[r] # "loaded" => rdata'[r] = store
             /\ rpc'[r] = "rejected" => answer'[r] = ErrorAnswer
             /\ answer'[r].status = "ok" /\ answer'[r] # answer[r] =>
                   answer'[r].posts \in {rdata[r], store}]_vars

\* with posts persisted, a poll cycle that had fetched a post failed on the
\* persisted document, and so did a read request
C24_Witness ==
    \E r \in Requests, p \in Pollers :
        /\ store # << >>
        /\ pc[p] = "failed"
        /\ lastResp[p] = "ok"
        /\ rpc[r] = "rejected"
        /\ answer[r] = ErrorAnswer

-----------------------------------------------------------------------------
(* The export tool (lines 405-588) *)

DEFAULT_DELAY_MS == 750
DEFAULT_MAX_DELAY_MS == 15000
\* DEFAULT_BACKOFF_FACTOR, 1.5
DefaultBackoffFactor == <<3, 2>>

\* the command-line arguments the model runs the tool with
DelayChoices == {0, 1, DEFAULT_DELAY_MS, 3000}
FactorChoices == {<<1, 2>>, <<1, 1>>, DefaultBackoffFactor, <<2, 1>>}
MaxDelayChoices == {500, 2000, DEFAULT_MAX_DELAY_MS}
MaxPagesChoices == {1, 2}

\* Number.parseInt of the retry-after header, "0" when there is none
RetryAfter(n) == [nan |-> FALSE, v |-> n]
RetryAfterNaN == [nan |-> TRUE, v |-> 0]
RetryAfterChoices == {RetryAfter(0), RetryAfter(2), RetryAfter(-1), RetryAfterNaN}

\* Math.ceil(n / d) for d > 0
Ceil(n, d) == -((-n) \div d)

\* lines 522-525
WaitMs(delay, retryAfter) ==
    LET retryAfterMs == IF retryAfter.nan \/ retryAfter.v <= 0 THEN 0
                        ELSE retryAfter.v * 1000
    IN  Max(delay, retryAfterMs)

\* lines 528-529, for a finite backoffFactor f and a maxDelayMs that is a number
NextDelay_NoCap(delay, f, cap) == Ceil(delay * f[1], f[2])

NextDelay_NoGrowth(delay, f, cap) == Min(delay, cap)

NextDelay_CapFirst(delay, f, cap) == Ceil(Min(delay, cap) * f[1], f[2])

NextDelay(delay, f, cap) == Min(Ceil(delay * f[1], f[2]), cap)

\* the cutoff of lines 439-441
cutoff == StartTime - 4

\* lines 512-516
withinRange(createdAt) == ValidDate(createdAt) /\ DateParse(createdAt) >= cutoff

ExportItem(id, createdAt) == [id |-> id, created_at |-> createdAt]

ExportPayloads ==
    { NotArray, Array(<< >>),
      Array(<<ExportItem("1", Alt(9))>>),
      Array(<<ExportItem("2", Alt(9))>>),
      Array(<<ExportItem("1", Alt(1))>>),
      Array(<<ExportItem("", Alt(9))>>),
      Array(<<ExportItem("1", Alt(9)), ExportItem("2", BadTs)>>) }

ExportResponse(status, retryAfter, parses, payload, next) ==
    [status |-> status, retryAfter |-> retryAfter, parses |-> parses,
     payload |-> payload, next |-> next]

ExportResponses ==
    { ExportResponse(500, RetryAfter(0), TRUE, NotArray, FALSE),
      ExportResponse(200, RetryAfter(0), FALSE, NotArray, TRUE) }
    \cup { ExportResponse(429, ra, TRUE, NotArray, FALSE) : ra \in RetryAfterChoices }
    \cup { ExportResponse(200, RetryAfter(0), TRUE, pl, nx) :
              pl \in ExportPayloads, nx \in BOOLEAN }

\* lines 542-571: the loop over the items of a page
RECURSIVE ExportItems(_, _, _, _)
ExportItems(items, seen, out, keepPaging) ==
    IF items = << >> THEN [seenIds |-> seen, rows |-> out, keepPaging |-> keepPaging]
    ELSE LET item == Head(items)
         IN  IF item.id = "" \/ item.id \in seen
             THEN ExportItems(Tail(items), seen, out, keepPaging)
             ELSE IF ~withinRange(item.created_at)
             THEN ExportItems(Tail(items), seen \cup {item.id}, out, keepPaging)
             ELSE ExportItems(Tail(items), seen \cup {item.id}, Append(out, item.id), TRUE)

\* the sleeps of line 527 that the model remembers of one run of 429 responses
MaxWaits == 2

\* the sleep `slept` is added to the run of sleeps, or begins a new run when the
\* response before this 429 was not a 429
Slept(run, goesOn, slept) ==
    IF ~goesOn THEN <<slept>>
    ELSE IF Len(run) < MaxWaits THEN Append(run, slept)
    ELSE run

\* a response other than 429: the run of sleeps that it ends is remembered
\* until the next response
Kept(run, endsRun) == IF endsRun THEN run ELSE << >>

ExportLoops_NoPageCap(url, pg) == url

\* the loop condition of line 518
ExportLoops(url, pg) == url /\ pg < maxPages

ExportStarted ==
    /\ delayMs \in DelayChoices
    /\ backoffFactor \in FactorChoices
    /\ maxDelayMs \in MaxDelayChoices
    /\ maxPages \in MaxPagesChoices
    /\ xpc = "fetch"
    /\ xpage = 0
    /\ xpageUrl = TRUE
    /\ currentDelay = delayMs
    /\ waitMs = 0
    /\ xresp = [status |-> 0, retryAfter |-> RetryAfter(0)]
    /\ seenIds = {}
    /\ rows = << >>
    /\ waits = << >>

\* fetch(pageUrl) of line 519 resolves with resp; lines 520-582 up to the next await
ExportFetch(resp) ==
    /\ xpc = "fetch"
    /\ xresp' = [status |-> resp.status, retryAfter |-> resp.retryAfter]
    /\ IF ~Ok(resp)
       THEN IF resp.status = 429
            THEN /\ waitMs' = WaitMs(currentDelay, resp.retryAfter)
                 /\ waits' = Slept(waits, xresp.status = 429,
                                   [ms |-> WaitMs(currentDelay, resp.retryAfter),
                                    retryAfter |-> resp.retryAfter])
                 /\ xpc' = "backoff"
                 /\ UNCHANGED <<xpage, xpageUrl, currentDelay, seenIds, rows>>
            ELSE /\ xpc' = "failed"
                 /\ waits' = Kept(waits, xresp.status = 429)
                 /\ UNCHANGED <<xpage, xpageUrl, currentDelay, waitMs, seenIds, rows>>
       ELSE /\ xpage' = xpage + 1
            /\ currentDelay' = delayMs
            /\ waits' = Kept(waits, xresp.status = 429)
            /\ UNCHANGED waitMs
            /\ IF ~resp.parses
               THEN /\ xpc' = "failed"
                    /\ UNCHANGED <<xpageUrl, seenIds, rows>>
               ELSE IF ~resp.payload.isArray \/ resp.payload.items = << >>
               THEN /\ xpc' = "done"
                    /\ UNCHANGED <<xpageUrl, seenIds, rows>>
               ELSE LET r == ExportItems(resp.payload.items, seenIds, rows, FALSE)
                    IN  /\ seenIds' = r.seenIds
                        /\ rows' = r.rows
                        /\ xpageUrl' = resp.next
                        /\ xpc' = IF ~r.keepPaging THEN "done"
                                  ELSE IF currentDelay' > 0 THEN "pause"
                                  ELSE IF ExportLoops(resp.next, xpage + 1) THEN "fetch"
                                  ELSE "done"
    /\ UNCHANGED <<delayMs, backoffFactor, maxDelayMs, maxPages, serviceVars, mergeVars, functionVars>>

\* sleep(waitMs) of line 527 is over: lines 528-530, and the loop goes round
ExportWake ==
    /\ xpc = "backoff"
    /\ currentDelay' = NextDelay(currentDelay, backoffFactor, maxDelayMs)
    /\ xpc' = IF ExportLoops(xpageUrl, xpage) THEN "fetch" ELSE "done"
    /\ UNCHANGED <<xpage, xpageUrl, waitMs, waits, xresp, seenIds, rows, delayMs,
                   backoffFactor, maxDelayMs, maxPages, serviceVars, mergeVars,
                   functionVars>>

\* sleep(currentDelay) of line 581 is over, and the loop goes round
ExportResume ==
    /\ xpc = "pause"
    /\ xpc' = IF ExportLoops(xpageUrl, xpage) THEN "fetch" ELSE "done"
    /\ UNCHANGED <<xpage, xpageUrl, currentDelay, waitMs, waits, xresp, seenIds, rows,
                   delayMs, backoffFactor, maxDelayMs, maxPages, serviceVars, mergeVars,
                   functionVars>>

InitExport == ServiceOff /\ MergeOff /\ FunctionsOff /\ ExportStarted

NextExport ==
    \/ \E resp \in ExportResponses : ExportFetch(resp)
    \/ ExportWake
    \/ ExportResume

SpecExport == InitExport /\ [][NextExport]_vars

\* the export tool run without --backoff-factor and --max-delay-ms (lines
\* 412-413), when every pending fetch and every pending sleep resolves in the
\* end, as the event loop with a server that answers guarantees
InitExportFair ==
    /\ InitExport
    /\ backoffFactor = DefaultBackoffFactor
    /\ maxDelayMs = DEFAULT_MAX_DELAY_MS

SpecExportFair == InitExportFair /\ [][NextExport]_vars /\ WF_vars(NextExport)

-----------------------------------------------------------------------------
(* normalizePosts on its own: three records merged in every order *)

MergeRecords ==
    { Post(Str7, Iso(8), StrPerma7, NoStr, "c"),
      Post(Str7, Iso(9), NoStr, NoStr, ""),
      Post(StrPerma7, Alt(8), NoStr, StrPerma7, "x"),
      Post(NoStr, Iso(5), StrMulti, StrPerma7, ""),
      Post(Str7, BadTs, NoStr, NoStr, "c"),
      Post(StrName, Iso(3), NoStr, StrTail, ""),
      Post(NoStr, Iso(4), StrName, StrPerma8, "c"),
      Post(StrName, Iso(2), StrPerma8, NoStr, ""),
      Post(NoStr, Iso(3), NoStr, NoStr, "c") }

Orders == { <<1, 2, 3>>, <<1, 3, 2>>, <<2, 1, 3>>, <<2, 3, 1>>, <<3, 1, 2>>, <<3, 2, 1>> }

\* the records of mIn merged one at a time in the given order, as pollFeed
\* merges what it fetches into what it has stored (line 246)
OneByOne(order) ==
    normalizePosts(
        normalizePosts(normalizePosts(<<mIn[order[1]]>>) \o <<mIn[order[2]]>>)
            \o <<mIn[order[3]]>>)

MergeStarted ==
    /\ mIn \in MergeRecords \X MergeRecords \X MergeRecords
    /\ mOut = << >>

\* normalizePosts is applied to [A, B], to [A, B] and then [C], and to the
\* three records one at a time in the given order
Merge(order) ==
    /\ mIn # << >>
    /\ mOut' = [pair |-> normalizePosts(<<mIn[1], mIn[2]>>),
                grouped |-> normalizePosts(normalizePosts(<<mIn[1], mIn[2]>>) \o <<mIn[3]>>),
                single |-> OneByOne(order),
                order |-> order]
    /\ UNCHANGED <<mIn, serviceVars, exportVars, functionVars>>

InitMerge == ServiceOff /\ ExportOff /\ FunctionsOff /\ MergeStarted

NextMerge == \E order \in Orders : Merge(order)

SpecMerge == InitMerge /\ [][NextMerge]_vars

-----------------------------------------------------------------------------
(* The decoders, canonicalId and computeHourly on their own *)

\* the longest payload, feed or post list that is tried
MaxItems == 3

SeqsUpTo(S, n) == UNION {[1..k -> S] : k \in 0..n}

\* the statuses of a payload and the <item> blocks of a feed
DecoderStatuses == {StatusA, StatusB, StatusOld, StatusNoId, StatusNoDate, StatusBadDate}
FeedItems ==
    { FeedItem(Str7, NoStr, Alt(8)), FeedItem(NoStr, StrPerma8, Alt(9)),
      FeedItem(NoStr, NoStr, Alt(9)), FeedItem(Str8, NoStr, NoTs),
      FeedItem(Str8, StrPerma8, BadTs) }

\* raw records with every choice of id, url and uri
IdStrings == {NoStr, Str7, StrPerma7, StrPerma8, StrMulti, StrTail, StrName}
RawRecords ==
    {Post(id, Iso(8), url, uri, "") : id \in IdStrings, url \in IdStrings, uri \in IdStrings}
LaterRecords ==
    { Post(Str7, Iso(9), StrPerma8, NoStr, "c"), Post(StrName, Iso(9), StrPerma7, NoStr, ""),
      Post(StrTail, Iso(5), NoStr, StrMulti, "c"), Post(NoStr, Iso(9), StrName, StrPerma7, "") }

\* persisted posts, as the decoders and normalizePosts make them
HourlyPosts ==
    { Post(Str7, Iso(9), NoStr, NoStr, ""), Post(StrPerma7, Iso(8), StrPerma7, NoStr, "c"),
      Post(Str8, Iso(5), NoStr, NoStr, "d"), Post(StrName, Iso(6), NoStr, NoStr, ""),
      Post(StrPerma8, Iso(1), StrPerma8, NoStr, "") }

\* posts for computeLatest, several of them at the latest instant
LatestPosts ==
    { Post(Str7, Iso(9), NoStr, NoStr, ""), Post(Str8, Iso(9), NoStr, NoStr, "d"),
      Post(StrPerma7, Iso(9), StrPerma7, NoStr, "c"), Post(StrName, Iso(6), NoStr, NoStr, ""),
      Post(StrPerma8, Iso(5), StrPerma8, NoStr, "") }

FunctionsStarted ==
    /\ fIn \in {[kind |-> "json", payload |-> NotArray]}
              \cup {[kind |-> "json", payload |-> Array(items)] :
                       items \in SeqsUpTo(DecoderStatuses, MaxItems)}
              \cup {[kind |-> "xml", xml |-> xml] : xml \in SeqsUpTo(FeedItems, MaxItems)}
              \cup {[kind |-> "id", post |-> p, later |-> q] :
                       p \in RawRecords, q \in LaterRecords}
              \cup {[kind |-> "hourly", posts |-> posts] :
                       posts \in SeqsUpTo(HourlyPosts, MaxItems)}
              \cup {[kind |-> "latest", posts |-> posts] :
                       posts \in SeqsUpTo(LatestPosts, MaxItems)}
    /\ fOut = [kind |-> "off"]

\* parseStatusList(payload) or parseFeed(xml)
Decode ==
    /\ fIn.kind \in {"json", "xml"}
    /\ fOut' = [kind |-> "decoded",
                result |-> IF fIn.kind = "json" THEN parseStatusList(fIn.payload)
                           ELSE parseFeed(fIn.xml)]
    /\ UNCHANGED <<fIn, serviceVars, exportVars, mergeVars>>

\* canonicalId(post), canonicalId of the post under that id (line 117), and the
\* post stored by normalizePosts and then merged with a later record
Canonicalize ==
    /\ fIn.kind = "id"
    /\ fOut' = [kind |-> "id",
                once |-> canonicalId(fIn.post),
                twice |-> canonicalId([fIn.post EXCEPT !.id = canonicalId(fIn.post)]),
                stored |-> normalizePosts(<<fIn.post>>),
                again |-> normalizePosts(normalizePosts(<<fIn.post>>) \o <<fIn.later>>)]
    /\ UNCHANGED <<fIn, serviceVars, exportVars, mergeVars>>

\* computeHourly(posts) of line 281
Hourly ==
    /\ fIn.kind = "hourly"
    /\ fOut' = [kind |-> "hourly", result |-> computeHourly(fIn.posts)]
    /\ UNCHANGED <<fIn, serviceVars, exportVars, mergeVars>>

\* computeLatest(posts) of line 269
Latest ==
    /\ fIn.kind = "latest"
    /\ fOut' = [kind |-> "latest", result |-> computeLatest(fIn.posts)]
    /\ UNCHANGED <<fIn, serviceVars, exportVars, mergeVars>>

InitFunctions == ServiceOff /\ ExportOff /\ MergeOff /\ FunctionsStarted

NextFunctions == Decode \/ Canonicalize \/ Hourly \/ Latest

SpecFunctions == InitFunctions /\ [][NextFunctions]_vars

-----------------------------------------------------------------------------
(* Claims about the export tool's backoff, checked under SpecExport *)

\* a 429 has just been answered: the tool starts to sleep
Gets429 == xpc = "fetch" /\ xpc' = "backoff"
\* the sleep after a 429 is over
Wakes == xpc = "backoff" /\ xpc' # "backoff"
\* a page has just been fetched with a success status
GetsPage == xpc = "fetch" /\ xresp'.status = 200

\* C6, as claimed: on a 429 the tool sleeps max(currentDelay, retryAfter * 1000);
\* after it currentDelay is currentDelay times the backoff factor, capped at
\* maxDelayMs; after a successful page currentDelay is delayMs
C6_BackoffRuleExact ==
    [][/\ Gets429 /\ ~xresp'.retryAfter.nan =>
             waitMs' = Max(currentDelay, xresp'.retryAfter.v * 1000)
       /\ Wakes =>
             currentDelay' * backoffFactor[2]
                 = Min(currentDelay * backoffFactor[1], maxDelayMs * backoffFactor[2])
       /\ GetsPage => currentDelay' = delayMs]_vars

\* C6, amended: the product is rounded up to a whole number of milliseconds
\* before it is capped
C6_BackoffRule ==
    [][/\ Gets429 /\ ~xresp'.retryAfter.nan =>
             waitMs' = Max(currentDelay, xresp'.retryAfter.v * 1000)
       /\ Wakes =>
             currentDelay'
                 = Min(-((-(currentDelay * backoffFactor[1])) \div backoffFactor[2]),
                       maxDelayMs)
       /\ GetsPage => currentDelay' = delayMs]_vars

\* with the default arguments, two 429s in a row: 750, 1125, 1688
C6_Witness ==
    /\ delayMs = DEFAULT_DELAY_MS
    /\ backoffFactor = DefaultBackoffFactor
    /\ maxDelayMs = DEFAULT_MAX_DELAY_MS
    /\ xpc = "fetch"
    /\ xresp.status = 429
    /\ currentDelay = 1688

-----------------------------------------------------------------------------
(* Claims about normalizePosts, checked under SpecMerge *)

Merged == mOut # << >>

\* C8: when A and B have the same canonical id, merging B into A keeps every
\* url, uri and content that A has, fills what A lacks from B, and takes B's
\* timestamp when that is the later one
C8_OptionalFieldsKept ==
    Merged /\ canonicalId(mIn[1]) = canonicalId(mIn[2]) /\ canonicalId(mIn[1]) # NoStr =>
        /\ Len(mOut.pair) = 1
        /\ LET a == mIn[1]
               b == mIn[2]
               r == mOut.pair[1]
           IN  /\ r.url = IF a.url # NoStr THEN a.url ELSE b.url
               /\ r.uri = IF a.uri # NoStr THEN a.uri ELSE b.uri
               /\ r.content = IF a.content # "" THEN a.content ELSE b.content
               /\ ValidDate(a.timestamp) /\ ValidDate(b.timestamp)
                     /\ DateParse(b.timestamp) > DateParse(a.timestamp)
                  => r.timestamp = b.timestamp

\* the post 7 with url and content, then the post 7 five minutes later without them
C8_Witness ==
    /\ Merged
    /\ mIn[1] = Post(Str7, Iso(8), StrPerma7, NoStr, "c")
    /\ mIn[2] = Post(Str7, Iso(9), NoStr, NoStr, "")
    /\ mOut.pair = <<Post(Str7, Iso(9), StrPerma7, NoStr, "c")>>

Range(seq) == {seq[i] : i \in 1..Len(seq)}

\* C9, as claimed: merging [A, B] then [C] gives the same set of posts as
\* merging A, B, C one at a time in any order
C9_MergeOrderFree == Merged => Range(mOut.grouped) = Range(mOut.single)

\* the records of mIn with canonical id k
Sharing(k) == {mIn[i] : i \in {i \in 1..3 : canonicalId(mIn[i]) = k}}

\* C9, amended: every order and grouping gives the same canonical ids and, for
\* each id, the same parsed timestamp, and the same url, uri and content
\* unless two of the records with that id carry different non-empty values of
\* that field
C9_MergeOrderFreeUpToConflicts ==
    Merged =>
        /\ {g.id : g \in Range(mOut.grouped)} = {x.id : x \in Range(mOut.single)}
        /\ Len(mOut.grouped) = Len(mOut.single)
        /\ \A g \in Range(mOut.grouped), x \in Range(mOut.single) :
              g.id = x.id =>
                  /\ ValidDate(g.timestamp) = ValidDate(x.timestamp)
                  /\ ValidDate(g.timestamp) =>
                        DateParse(g.timestamp) = DateParse(x.timestamp)
                  /\ Cardinality({r.url : r \in Sharing(g.id)} \ {NoStr}) <= 1
                        => g.url = x.url
                  /\ Cardinality({r.uri : r \in Sharing(g.id)} \ {NoStr}) <= 1
                        => g.uri = x.uri
                  /\ Cardinality({r.content : r \in Sharing(g.id)} \ {""}) <= 1
                        => g.content = x.content

\* three records of one canonical id, with different timestamps and contents,
\* merged in another order than A, B, C
C9_Witness ==
    /\ Merged
    /\ mOut.order = <<3, 1, 2>>
    /\ Cardinality({canonicalId(mIn[i]) : i \in 1..3}) = 1
    /\ Cardinality({mIn[i].timestamp : i \in 1..3}) = 3
    /\ Cardinality({mIn[i].content : i \in 1..3}) = 3
    /\ Len(mOut.single) = 1

\* the canonical ids of the records of mIn that have one
Identified == {canonicalId(mIn[i]) : i \in 1..3} \ {NoStr}

\* C25: every post that normalizePosts gives has a non-empty id, which is its
\* canonical id; the posts are one for each canonical id among the records, and
\* a record without url, uri and id adds none
C25_StoredPostsHaveId ==
    Merged =>
        \A out \in {mOut.pair, mOut.grouped, mOut.single} :
            /\ \A i \in 1..Len(out) : out[i].id # NoStr /\ out[i].id = canonicalId(out[i])
            /\ out # mOut.pair =>
                  /\ {out[i].id : i \in 1..Len(out)} = Identified
                  /\ Len(out) = Cardinality(Identified)

\* a record without identity arrives between the posts 7 and ab, and only
\* those two are kept
C25_Witness ==
    /\ Merged
    /\ mIn[1] = Post(Str7, Iso(9), NoStr, NoStr, "")
    /\ mIn[2] = Post(NoStr, Iso(3), NoStr, NoStr, "c")
    /\ mIn[3] = Post(StrName, Iso(2), StrPerma8, NoStr, "")
    /\ Len(mOut.grouped) = 2
    /\ Len(mOut.single) = 2

-----------------------------------------------------------------------------
(* Claims about pagination, checked under Spec, and about the backoff of *)
(* the export tool, checked under SpecExport                             *)

\* the response to p's page request arrives in this step
PageArrives(p) == pc[p] = "fetch" /\ (pc'[p] # "fetch" \/ page'[p] # page[p])

\* no record is older than now minus the recency window
Recent(posts) ==
    \A i \in 1..Len(posts) : DateParse(posts[i].timestamp) >= now - HISTORY_WINDOW

\* the records of `longer` begin with those of `shorter`
Extends(longer, shorter) ==
    /\ Len(longer) >= Len(shorter)
    /\ SubSeq(longer, 1, Len(shorter)) = shorter

\* C16: after a page that was decoded, the fetcher requests a further page
\* only if the response gave a next cursor, fewer pages than the maximum have
\* been fetched, no record fetched so far is older than now minus the recency
\* window and the page yielded a record; otherwise the fetch is done with the
\* records gathered so far, which the cycle goes on to merge when there are any
C16_FurtherPageOnlyIf ==
    [][\A p \in Pollers :
          PageArrives(p) /\ lastResp'[p] \in {"ok", "empty"} =>
              /\ pc'[p] = "fetch" =>
                    /\ pageUrl'[p]
                    /\ page'[p] = page[p] + 1
                    /\ page'[p] < MAX_STATUS_PAGES
                    /\ Recent(collected'[p])
                    /\ Extends(collected'[p], collected[p])
                    /\ Len(collected'[p]) > Len(collected[p])
              /\ pc'[p] # "fetch" =>
                    /\ pc'[p] \in {"load", "done"}
                    /\ pc'[p] = "load" =>
                          /\ Extends(collected'[p], collected[p])
                          /\ lastResp'[p] = "ok" => Len(collected'[p]) > Len(collected[p])
                    /\ pc'[p] = "done" => collected[p] = << >> /\ lastResp'[p] = "empty"]_vars

\* the first page gave one recent record and a next cursor, and the second
\* page has been requested
C16_Witness ==
    \E p \in Pollers :
        /\ pc[p] = "fetch"
        /\ page[p] = 1
        /\ lastResp[p] = "ok"
        /\ Len(collected[p]) = 1

\* C17: a page after the first that yields no items ends the fetch without
\* error, with the records of the earlier pages, and the save of the cycle
\* persists those records merged into what it read
C17_EmptyPageEndsFetch ==
    [][\A p \in Pollers :
          /\ pc[p] = "fetch" /\ page[p] >= 1 /\ lastResp'[p] = "empty" =>
                /\ pc'[p] = "load"
                /\ collected'[p] = collected[p]
                /\ collected[p] # << >>
          /\ Saves(p) =>
                CanonicalIds(store') = CanonicalIds(data[p]) \cup CanonicalIds(collected[p])]_vars

\* only the start-up cycle has run: its second page had no items, and the
\* record of its first page is persisted
C17_Witness ==
    /\ now = StartTime
    /\ lastSeedAttempt = 0
    /\ pc[1] = "done"
    /\ pc[2] = "idle"
    /\ lastResp[1] = "empty"
    /\ Len(store) = 1
    /\ lastPollAt = <<StartTime>>

\* a run of 429 responses that began with retry-after 2 and went on with
\* retry-after 0
RunTwoZero ==
    /\ Len(waits) >= 2
    /\ waits[1].retryAfter = RetryAfter(2)
    /\ waits[2].retryAfter = RetryAfter(0)

\* C18, as claimed: the fetcher sleeps at least 2000 ms after the first 429 and
\* at least base delay times backoff factor after the second, and the delay is
\* the base delay again after the 200
C18_WaitsAtLeastProduct ==
    /\ Len(waits) >= 1 /\ waits[1].retryAfter = RetryAfter(2) => waits[1].ms >= 2000
    /\ RunTwoZero => waits[2].ms * backoffFactor[2] >= delayMs * backoffFactor[1]
    /\ RunTwoZero /\ xresp.status = 200 => currentDelay = delayMs /\ xpage >= 1

\* C18, amended: the second sleep is at least base delay times backoff factor
\* or at least the maximum delay
C18_WaitsAtLeastCappedProduct ==
    /\ Len(waits) >= 1 /\ waits[1].retryAfter = RetryAfter(2) => waits[1].ms >= 2000
    /\ RunTwoZero =>
          \/ waits[2].ms * backoffFactor[2] >= delayMs * backoffFactor[1]
          \/ waits[2].ms >= maxDelayMs
    /\ RunTwoZero /\ xresp.status = 200 => currentDelay = delayMs /\ xpage >= 1

\* the default configuration: 2000 ms, then 1125 ms, then the first page
\* arrives and the delay is 750 ms again
C18_Witness ==
    /\ delayMs = DEFAULT_DELAY_MS
    /\ backoffFactor = DefaultBackoffFactor
    /\ maxDelayMs = DEFAULT_MAX_DELAY_MS
    /\ waits = << [ms |-> 2000, retryAfter |-> RetryAfter(2)],
                  [ms |-> 1125, retryAfter |-> RetryAfter(0)] >>
    /\ xresp.status = 200
    /\ xpage = 1
    /\ xpc # "failed"
    /\ currentDelay = DEFAULT_DELAY_MS

-----------------------------------------------------------------------------
(* Claims about the decoders, canonicalId and computeHourly, checked under *)
(* SpecFunctions                                                           *)

\* a status with an identifier and a creation time that is a date
ValidStatus(item) ==
    /\ OrStr(item.id, OrStr(item.url, item.uri)) # NoStr
    /\ ValidDate(item.created_at)

\* an <item> with an identity and a pubDate that is a date
ValidFeedItem(chunk) ==
    /\ OrStr(chunk.guid, chunk.link) # NoStr
    /\ ValidDate(chunk.pubDate)

\* C15: a decoder never raises, and returns one record for each valid item of
\* its input, in their order, with the item's identity and instant
C15_DecodersTotal ==
    fOut.kind = "decoded" =>
        /\ ~fOut.result.threw
        /\ fIn.kind = "json" /\ fIn.payload.isArray =>
              LET valid == SelectSeq(fIn.payload.items, ValidStatus)
              IN  /\ Len(fOut.result.items) = Len(valid)
                  /\ \A i \in 1..Len(valid) :
                        /\ fOut.result.items[i].id =
                               OrStr(valid[i].id, OrStr(valid[i].url, valid[i].uri))
                        /\ DateParse(fOut.result.items[i].timestamp) = valid[i].created_at.t
        /\ fIn.kind = "xml" =>
              LET valid == SelectSeq(fIn.xml, ValidFeedItem)
              IN  /\ Len(fOut.result.items) = Len(valid)
                  /\ \A i \in 1..Len(valid) :
                        /\ fOut.result.items[i].id = OrStr(valid[i].guid, valid[i].link)
                        /\ DateParse(fOut.result.items[i].timestamp) = valid[i].pubDate.t

\* C19: canonicalId of a record under its canonical id is that id again; the
\* record is stored under it, is still there under it after a later merge, and
\* every stored post has its canonical id as its id
C19_CanonicalIdIdempotent ==
    fOut.kind = "id" =>
        /\ fOut.twice = fOut.once
        /\ fOut.once # NoStr =>
              /\ Len(fOut.stored) = 1
              /\ fOut.stored[1].id = fOut.once
              /\ \E i \in 1..Len(fOut.again) : fOut.again[i].id = fOut.once
        /\ \A i \in 1..Len(fOut.again) : canonicalId(fOut.again[i]) = fOut.again[i].id

\* the record with the permalink as its id is stored as post 7, and is post 7
\* still after the later record with the bare id 7 has filled its url
C19_Witness ==
    /\ fOut.kind = "id"
    /\ fIn.post = Post(StrPerma7, Iso(8), NoStr, NoStr, "")
    /\ fOut.once = Str7
    /\ fOut.again = <<Post(Str7, Iso(9), StrPerma8, NoStr, "c")>>

\* the hour an instant lies in
HourOf(t) == t - (t % HourLen)

RECURSIVE SumCounts(_)
SumCounts(hours) == IF hours = << >> THEN 0 ELSE Head(hours).count + SumCounts(Tail(hours))

\* C20: computeHourly gives one bucket for each hour that holds a post of the
\* normalized set, in ascending order of hour, each with the number of posts of
\* that hour, and the counts add up to the size of the normalized set
C20_HourlySumsToTotal ==
    fOut.kind = "hourly" =>
        LET all == normalizePosts(fIn.posts)
            hours == fOut.result.hours
        IN  /\ ~fOut.result.threw
            /\ {DateParse(hours[i].hour) : i \in 1..Len(hours)}
                  = {HourOf(DateParse(all[i].timestamp)) : i \in 1..Len(all)}
            /\ \A i \in 1..(Len(hours) - 1) :
                  DateParse(hours[i].hour) < DateParse(hours[i + 1].hour)
            /\ \A i \in 1..Len(hours) :
                  hours[i].count =
                      Cardinality({j \in 1..Len(all) :
                                      HourOf(DateParse(all[j].timestamp))
                                          = DateParse(hours[i].hour)})
            /\ SumCounts(hours) = Len(all)

\* post 7 fetched twice and post 8: two posts in two hours
C20_Witness ==
    /\ fOut.kind = "hourly"
    /\ fIn.posts = << Post(Str7, Iso(9), NoStr, NoStr, ""),
                      Post(StrPerma7, Iso(8), StrPerma7, NoStr, "c"),
                      Post(Str8, Iso(5), NoStr, NoStr, "d") >>
    /\ fOut.result.hours = << [hour |-> Iso(4), count |-> 1], [hour |-> Iso(8), count |-> 1] >>

\* the place in posts where the canonical id first occurs
FirstAt(posts, id) ==
    CHOOSE k \in 1..Len(posts) :
        /\ canonicalId(posts[k]) = id
        /\ \A j \in 1..(k - 1) : canonicalId(posts[j]) # id

\* C21: computeLatest gives null exactly when the normalized set is empty, and
\* else a post of the normalized set with the greatest timestamp; of several
\* posts at that timestamp it gives the one that comes first in the normalized
\* order, which is the one whose canonical id occurs first in the list passed
C21_LatestIsFirstMaximum ==
    fOut.kind = "latest" =>
        LET all == normalizePosts(fIn.posts)
            time(i) == DateParse(all[i].timestamp)
        IN  /\ (fOut.result = << >>) <=> (all = << >>)
            /\ all # << >> =>
                  \E i \in 1..Len(all) :
                      /\ fOut.result = <<all[i]>>
                      /\ \A j \in 1..Len(all) : time(j) <= time(i)
                      /\ \A j \in 1..(i - 1) : time(j) < time(i)
                      /\ \A j \in 1..Len(all) :
                            j # i /\ time(j) = time(i) =>
                                FirstAt(fIn.posts, all[i].id) < FirstAt(fIn.posts, all[j].id)

\* posts 8 and 7 are both at instant 9 and post 8 is met first: it is the
\* latest, although post 7 is met again after it
C21_Witness ==
    /\ fOut.kind = "latest"
    /\ fIn.posts = << Post(Str8, Iso(9), NoStr, NoStr, "d"),
                      Post(Str7, Iso(9), NoStr, NoStr, ""),
                      Post(StrPerma7, Iso(9), StrPerma7, NoStr, "c") >>
    /\ fOut.result = << Post(Str8, Iso(9), NoStr, NoStr, "d") >>

\* the digits of the last path segment of s when that segment is digits only
TrailingDigits(s) ==
    LET slashes == {i \in 1..(Len(s) - 1) :
                       s[i] = "/" /\ \A j \in (i + 1)..Len(s) : IsDigit(s[j])}
    IN  IF slashes = {} THEN NoStr
        ELSE SubSeq(s, (CHOOSE i \in slashes : TRUE) + 1, Len(s))

\* C26: for a post whose id ends in a path segment of digits, canonicalId
\* gives the digits of that last segment, whatever numeric segments come
\* before it
C26_TrailingSegment ==
    fOut.kind = "id" /\ TrailingDigits(fIn.post.id) # NoStr =>
        fOut.once = TrailingDigits(fIn.post.id)

-----------------------------------------------------------------------------
(* A claim about the range of the backoff delay, checked under SpecExport *)

GrowingBackoff == backoffFactor[1] >= backoffFactor[2] /\ delayMs <= maxDelayMs

-----------------------------------------------------------------------------
(* Claims about the end of the export loop, checked under SpecExportFair *)

ExportEnded == xpc \in {"done", "failed"}

====
